---- MODULE Spec2Model ----
(***************************************************************************)
(* Masksembles layers of masksembles/torch.py: the four nn.Module classes  *)
(* Masksembles2D, Masksembles1D, Masksembles1DDynamicSize and              *)
(* Masksembles2DDynamicSize, their constructors and their forward methods. *)
(*                                                                         *)
(* A tensor is a record [dtype, shape, data]: data is the row-major        *)
(* flattening of the elements, shape the sequence of dimension sizes.      *)
(* Element values are integers (every integer used here is exactly         *)
(* representable in float64, the type the multiplication is done in).      *)
(* A raised Python exception is a status string other than "ok".           *)
(***************************************************************************)
EXTENDS Integers, Sequences, FiniteSets, TLC

VARIABLES layer, ctor, call

vars == <<layer, ctor, call>>

(***************************************************************************)
(* Bounds of the model.                                                    *)
(***************************************************************************)
MaxN == 2          \* largest number of masks n passed to a constructor
MaxChannels == 2   \* largest channels argument, mask width and input C
MaxBatch == 5      \* largest batch size N of an input
MaxH == 2          \* the spatial height H of the rank-4 inputs
MaxW == 2          \* the spatial width W of the rank-4 inputs

\* scale values: powers of two, for which the float arithmetic of
\* expected_size is exact
Scales == {1, 2}

DTypes == {"float32", "float64"}

(***************************************************************************)
(* Arithmetic helpers.                                                     *)
(***************************************************************************)
Abs(x) == IF x < 0 THEN -x ELSE x

RECURSIVE Pow(_, _)
Pow(b, e) == IF e <= 0 THEN 1 ELSE b * Pow(b, e - 1)

RECURSIVE Prod(_)
Prod(s) == IF s = <<>> THEN 1 ELSE Head(s) * Prod(Tail(s))

\* Python's a // b on integers (floor division), b # 0
PyFloorDiv(a, b) == IF b > 0 THEN a \div b ELSE (-a) \div (-b)

\* Python's int(x) of the rational num/den, den > 0: truncation toward zero
PyIntTrunc(num, den) == IF num >= 0 THEN num \div den ELSE -((-num) \div den)

(***************************************************************************)
(* Tensors.                                                                *)
(***************************************************************************)
Tensor(dtype, shape, data) == [dtype |-> dtype, shape |-> shape, data |-> data]

NoTensor == Tensor("none", <<>>, <<>>)

\* the number of bits of float32's significand
Float32MantissaBits == 24

\* 2^24: up to it every integer is a float32
Float32Exact == Pow(2, Float32MantissaBits)

\* the spacing of the float32 values around a natural number a < lim * 2^k,
\* where u is the spacing below lim
RECURSIVE float32_ulp(_, _, _)
float32_ulp(a, lim, u) == IF a < lim THEN u ELSE float32_ulp(a, 2 * lim, 2 * u)

\* the value of float32(v) for an integer v: exact up to 2^24, beyond that
\* rounded to the nearest representable value, ties to even
float32_round(v) ==
  IF Abs(v) <= Float32Exact THEN v
  ELSE LET a == Abs(v)
           ulp == float32_ulp(a, Float32Exact, 1)
           q == a \div ulp
           r == a % ulp
           up == (2 * r > ulp) \/ (2 * r = ulp /\ q % 2 = 1)
           m == (IF up THEN q + 1 ELSE q) * ulp
       IN  IF v < 0 THEN -m ELSE m

\* Tensor.float(): the tensor converted to torch.float32
float(x) ==
  Tensor("float32", x.shape, [i \in DOMAIN x.data |-> float32_round(x.data[i])])

\* torch.split without its checks of split_size: a split_size of 0 or less
\* gives the whole dimension as one chunk
torch_split_unchecked(dim_size, split_size) ==
  [status |-> "ok",
   sizes |-> IF split_size <= 0 THEN <<dim_size>>
             ELSE [i \in 1..((dim_size + split_size - 1) \div split_size) |->
                     IF i * split_size <= dim_size THEN split_size
                     ELSE dim_size - split_size * (i - 1)]]

\* torch.split(t, split_size, dim): the sizes of the chunks along a dimension
\* of size dim_size, or the RuntimeError it raises
torch_split(dim_size, split_size) ==
  IF split_size < 0 \/ (split_size = 0 /\ dim_size # 0)
  THEN [status |-> "RuntimeError", sizes |-> <<>>]
  ELSE LET ceil == IF split_size = 0 THEN 1
                   ELSE (dim_size + split_size - 1) \div split_size
           num == IF ceil < 1 THEN 1 ELSE ceil
       IN  [status |-> "ok",
            sizes |-> [i \in 1..num |->
                         IF i < num THEN split_size
                         ELSE dim_size - split_size * (num - 1)]]

\* torch.cat(chunks, dim=1) of chunks whose dimension 0 has these sizes: every
\* dimension but the concatenated one has to agree
torch_cat(sizes) == \A i \in 1..Len(sizes) : sizes[i] = sizes[1]

NoBroadcast == -1

\* the size two dimensions broadcast to (equal, or one of them 1), or
\* NoBroadcast when the multiplication raises
broadcast_dim(a, b) ==
  IF a = b THEN a
  ELSE IF a = 1 THEN b
  ELSE IF b = 1 THEN a
  ELSE NoBroadcast

\* the dtype of tensor * tensor for a float64 right operand (type promotion)
result_type(dtype) == "float64"

(***************************************************************************)
(* forward.  The four forward methods have the same body up to the rank of *)
(* the input; masked_batch is that body, on an input of shape [N, C] or    *)
(* [N, C, H, W] whose trailing H * W positions are flattened.              *)
(***************************************************************************)
Forward_result(status, self, out) == [status |-> status, self |-> self, out |-> out]

\* x = torch.cat(torch.split(inputs.unsqueeze(1), batch // n, dim=0), dim=1)
\*       .permute([1, 0, 2, ...]):  x[j][i] is the input row at index j * s + i
group_row(j, i, s) == j * s + i

\* x * masks.unsqueeze(1)...: the element [j][i][c][p] of the product of x
\* (k groups of s rows, C channels, P spatial positions) and masks (R rows of
\* width W), where a dimension of size 1 is read at index 0 by broadcasting
masked_element(inputs, masks, k, s, C, P, R, W, j, i, c, p) ==
  LET jx == IF k = 1 THEN 0 ELSE j
      cx == IF C = 1 THEN 0 ELSE c
      jm == IF R = 1 THEN 0 ELSE j
      cm == IF W = 1 THEN 0 ELSE c
  IN  inputs.data[(group_row(jx, i, s) * C + cx) * P + p + 1]
        * masks.data[jm * W + cm + 1]

\* the elements of the regrouped product, row-major: element e is at row
\* r = j * s + i of group j, channel c and spatial position p
regroup_data(inputs, masks, k, s, C, P, R, W, len, Cb) ==
  [e \in 1..len |->
     masked_element(inputs, masks, k, s, C, P, R, W,
                    ((e - 1) \div (Cb * P)) \div s, ((e - 1) \div (Cb * P)) % s,
                    ((e - 1) \div P) % Cb, (e - 1) % P)]

\* torch.cat(torch.split(x, 1, dim=0), dim=1).squeeze(0) of the product x of
\* broadcast shape [K, s, Cb, ...]: the K groups of s rows in a row; with
\* K = 0 the only chunk is x itself and dimension 0, of size 0, is not squeezed
regroup(inputs, masks, k, s, K, Cb) ==
  LET C == inputs.shape[2]
      spatial == SubSeq(inputs.shape, 3, Len(inputs.shape))
      P == Prod(spatial)
      R == masks.shape[1]
      W == masks.shape[2]
      shape == IF K = 0 THEN <<0, s, Cb>> \o spatial ELSE <<K * s, Cb>> \o spatial
  IN  Tensor(result_type(inputs.dtype), shape,
             regroup_data(inputs, masks, k, s, C, P, R, W, K * s * Cb * P, Cb))

masked_batch(self, inputs) ==
  LET batch == inputs.shape[1]
      C == inputs.shape[2]
  IN
  IF self.n = 0 THEN Forward_result("ZeroDivisionError", self, NoTensor)
  ELSE
  LET split == torch_split(batch, PyFloorDiv(batch, self.n)) IN
  IF split.status # "ok" THEN Forward_result(split.status, self, NoTensor)
  ELSE IF ~torch_cat(split.sizes) THEN Forward_result("RuntimeError", self, NoTensor)
  ELSE
  LET k == Len(split.sizes)
      s == split.sizes[1]
      K == broadcast_dim(k, self.masks.shape[1])
      Cb == broadcast_dim(C, self.masks.shape[2])
  IN
  IF K = NoBroadcast \/ Cb = NoBroadcast
  THEN Forward_result("RuntimeError", self, NoTensor)
  ELSE
  Forward_result("ok", self, float(regroup(inputs, self.masks, k, s, K, Cb)))

Masksembles2D_forward(self, inputs) == masked_batch(self, inputs)

\* a forward that narrows the stored masks in place (self.masks =
\* self.masks.float()) before it returns
Masksembles1D_forward_inplace(self, inputs) ==
  Forward_result(masked_batch(self, inputs).status,
                 [self EXCEPT !.masks = float(self.masks)],
                 masked_batch(self, inputs).out)

Masksembles1D_forward(self, inputs) == masked_batch(self, inputs)

Masksembles1DDynamicSize_forward(self, inputs) == masked_batch(self, inputs)

Masksembles2DDynamicSize_forward(self, inputs) == masked_batch(self, inputs)

(***************************************************************************)
(* Construction.                                                           *)
(***************************************************************************)
Matrix(rows, width, data) == Tensor("float64", <<rows, width>>, data)

\* np.zeros([rows, width]) / np.ones([rows, width]); a negative dimension
\* raises ValueError
np_full(rows, width, v) ==
  IF rows < 0 \/ width < 0
  THEN [status |-> "ValueError", value |-> NoTensor]
  ELSE [status |-> "ok",
        value |-> Matrix(rows, width, [e \in 1..(rows * width) |-> v])]

\* np.zeros([width, rows]): the dimensions swapped
np_zeros_transposed(rows, width) == np_full(width, rows, 0)

np_zeros(rows, width) == np_full(rows, width, 0)

np_ones(rows, width) == np_full(rows, width, 1)

\* np.logical_or(a, b) of two elements, stored back as a number
logical_or(a, b) == IF a # 0 \/ b # 0 THEN 1 ELSE 0

\* masks[i] = np.logical_or(masks[i], masks[i - 1])
nest_row(masks, i) ==
  LET W == masks.shape[2] IN
  Tensor(masks.dtype, masks.shape,
         [e \in 1..Len(masks.data) |->
            IF (e - 1) \div W = i
            THEN logical_or(masks.data[e], masks.data[e - W])
            ELSE masks.data[e]])

\* for i in range(i, n): masks[i] = np.logical_or(masks[i], masks[i - 1])
\* (in place, so row i - 1 is already nested); IndexError past the last row
RECURSIVE nest_loop(_, _, _)
nest_loop(masks, i, n) ==
  IF i >= n THEN [status |-> "ok", value |-> masks]
  ELSE IF i >= masks.shape[1] THEN [status |-> "IndexError", value |-> NoTensor]
  ELSE nest_loop(nest_row(masks, i), i + 1, n)

\* the loop over range(1, n - 1): the last mask is left as generated
nested_short(masks, n) == nest_loop(masks, 1, n - 1)

nested(masks, n) == nest_loop(masks, 1, n)

\* int(channels * scale * (1 - (1 - 1 / scale) ** n)) for an integer-valued
\* scale, computed on exact rationals; it is the float result for the scales
\* of Scales.  1 / 0 and 0.0 ** (negative) raise ZeroDivisionError
expected_size(channels, n, scale) ==
  IF scale = 0 \/ (scale = 1 /\ n < 0)
  THEN [status |-> "ZeroDivisionError", value |-> 0]
  ELSE IF n >= 0
  THEN [status |-> "ok",
        value |-> PyIntTrunc(channels * scale * (Pow(scale, n) - Pow(scale - 1, n)),
                             Pow(scale, n))]
  ELSE [status |-> "ok",
        value |-> PyIntTrunc(channels * scale * (Pow(scale - 1, -n) - Pow(scale, -n)),
                             Pow(scale - 1, -n))]

NoSize == <<>>

Layer(cls, channels, n, scale, size, masks) ==
  [cls |-> cls, channels |-> channels, n |-> n, scale |-> scale,
   expected_size |-> size, masks |-> masks]

NoLayer == Layer("none", 0, 0, 0, NoSize, NoTensor)

Init_result(status, self, gen_calls, raw) ==
  [status |-> status, self |-> self, gen_calls |-> gen_calls, raw |-> raw]

\* what the external generator does when called: it returns a matrix, or raises
GenRaises(gen) == gen.dtype = "none"

\* Masksembles2D.__init__ and Masksembles1D.__init__ after the attributes are
\* set; bypass is the scale == 1 shortcut (only Masksembles1D has it) and gen
\* is what common.generation_wrapper does if it is called
fixed_init(cls, channels, n, scale, generate_masks, nested_masks, bypass, gen) ==
  IF generate_masks
  THEN LET called == ~bypass
           calls == IF called THEN 1 ELSE 0
           raw == IF called THEN gen ELSE NoTensor
           got == IF called
                  THEN [status |-> IF GenRaises(gen) THEN "GeneratorError" ELSE "ok",
                        value |-> gen]
                  ELSE np_ones(n, channels)
       IN  IF got.status # "ok" THEN Init_result(got.status, NoLayer, calls, raw)
           ELSE LET m == IF nested_masks THEN nested(got.value, n)
                         ELSE [status |-> "ok", value |-> got.value]
                IN  IF m.status # "ok" THEN Init_result(m.status, NoLayer, calls, raw)
                    ELSE Init_result("ok",
                           Layer(cls, channels, n, scale, NoSize, m.value), calls, raw)
  ELSE LET z == np_zeros(n, channels)
       IN  IF z.status # "ok" THEN Init_result(z.status, NoLayer, 0, NoTensor)
           ELSE Init_result("ok", Layer(cls, channels, n, scale, NoSize, z.value),
                            0, NoTensor)

Masksembles2D_init(channels, n, scale, generate_masks, nested_masks, gen) ==
  fixed_init("Masksembles2D", channels, n, scale, generate_masks, nested_masks,
             FALSE, gen)

\* Masksembles1D.__init__ without the scale == 1 shortcut, as Masksembles2D's
Masksembles1D_init_no_bypass(channels, n, scale, generate_masks, nested_masks, gen) ==
  fixed_init("Masksembles1D", channels, n, scale, generate_masks, nested_masks,
             FALSE, gen)

Masksembles1D_init(channels, n, scale, generate_masks, nested_masks, gen) ==
  fixed_init("Masksembles1D", channels, n, scale, generate_masks, nested_masks,
             scale = 1, gen)

\* Masksembles1DDynamicSize.__init__ and Masksembles2DDynamicSize.__init__; gen
\* is what common.generate_masks does if it is called
dynamic_init(cls, channels, n, scale, generate_masks, gen) ==
  LET size == expected_size(channels, n, scale) IN
  IF size.status # "ok" THEN Init_result(size.status, NoLayer, 0, NoTensor)
  ELSE IF generate_masks
  THEN IF GenRaises(gen) THEN Init_result("GeneratorError", NoLayer, 1, gen)
       ELSE Init_result("ok", Layer(cls, channels, n, scale, <<size.value>>, gen),
                        1, gen)
  ELSE LET z == np_zeros(n, size.value)
       IN  IF z.status # "ok" THEN Init_result(z.status, NoLayer, 0, NoTensor)
           ELSE Init_result("ok",
                  Layer(cls, channels, n, scale, <<size.value>>, z.value), 0, NoTensor)

Masksembles1DDynamicSize_init(channels, n, scale, generate_masks, gen) ==
  dynamic_init("Masksembles1DDynamicSize", channels, n, scale, generate_masks, gen)

Masksembles2DDynamicSize_init(channels, n, scale, generate_masks, gen) ==
  dynamic_init("Masksembles2DDynamicSize", channels, n, scale, generate_masks, gen)

(***************************************************************************)
(* The external mask generator (masksembles/common.py).  It returns a      *)
(* binary matrix with one row per mask whose width it determines itself;   *)
(* there is no matrix for a negative n or channels, so it raises then.     *)
(* NoTensor stands for a raised exception.                                 *)
(***************************************************************************)
BinaryMatrices(rows, width) ==
  {Matrix(rows, width, d) : d \in [1..(rows * width) -> {0, 1}]}

common_generation_wrapper(channels, n, scale) ==
  IF n < 0 \/ channels < 0 THEN {NoTensor}
  ELSE UNION {BinaryMatrices(n, w) : w \in 0..MaxChannels}

common_generate_masks(channels, n, scale) ==
  IF n < 0 \/ channels < 0 THEN {NoTensor}
  ELSE UNION {BinaryMatrices(n, w) : w \in 0..MaxChannels}

(***************************************************************************)
(* Inputs of the model.                                                    *)
(***************************************************************************)
ChannelArgs == -1..MaxChannels

NArgs == -1..MaxN

InputShapes1D == {<<N, C>> : N \in 0..MaxBatch, C \in 1..MaxChannels}

InputShapes2D ==
  {<<N, C, MaxH, MaxW>> : N \in 0..MaxBatch, C \in 1..MaxChannels}

\* one tensor per shape and dtype, its elements pairwise different: a float32
\* tensor of small values and a float64 tensor of values just above 2^24
InputTensor(dtype, shape) ==
  Tensor(dtype, shape,
         [e \in 1..Prod(shape) |->
            IF dtype = "float32" THEN e ELSE Float32Exact + e])

Inputs1D == {InputTensor(d, sh) : d \in DTypes, sh \in InputShapes1D}

Inputs2D == {InputTensor(d, sh) : d \in DTypes, sh \in InputShapes2D}

(***************************************************************************)
(* The state machine: layer is the layer object (NoLayer before the first  *)
(* construction and after a constructor raised), ctor the last constructor *)
(* call and call the last forward call on the layer.                       *)
(***************************************************************************)
Ctor(cls, channels, n, scale, generate_masks, nested_masks, res) ==
  [cls |-> cls, channels |-> channels, n |-> n, scale |-> scale,
   generate_masks |-> generate_masks, nested_masks |-> nested_masks,
   status |-> res.status, gen_calls |-> res.gen_calls, raw |-> res.raw]

NoCtor ==
  Ctor("none", 0, 0, 0, FALSE, FALSE, Init_result("none", NoLayer, 0, NoTensor))

Call(status, inputs, out) == [status |-> status, inputs |-> inputs, out |-> out]

NoCall == Call("none", NoTensor, NoTensor)

Init == layer = NoLayer /\ ctor = NoCtor /\ call = NoCall

\* A layer is constructed once, at the start (ctor.status = "none").
Construct2D ==
  /\ ctor.status = "none"
  /\ \E channels \in ChannelArgs, n \in NArgs, scale \in Scales,
        generate_masks \in BOOLEAN, nested_masks \in BOOLEAN :
       \E gen \in common_generation_wrapper(channels, n, scale) :
         LET res == Masksembles2D_init(channels, n, scale, generate_masks,
                                       nested_masks, gen)
         IN  /\ layer' = res.self
             /\ ctor' = Ctor("Masksembles2D", channels, n, scale, generate_masks,
                             nested_masks, res)
             /\ call' = NoCall

Construct1D ==
  /\ ctor.status = "none"
  /\ \E channels \in ChannelArgs, n \in NArgs, scale \in Scales,
        generate_masks \in BOOLEAN, nested_masks \in BOOLEAN :
       \E gen \in common_generation_wrapper(channels, n, scale) :
         LET res == Masksembles1D_init(channels, n, scale, generate_masks,
                                       nested_masks, gen)
         IN  /\ layer' = res.self
             /\ ctor' = Ctor("Masksembles1D", channels, n, scale, generate_masks,
                             nested_masks, res)
             /\ call' = NoCall

Construct1DDynamicSize ==
  /\ ctor.status = "none"
  /\ \E channels \in ChannelArgs, n \in NArgs, scale \in Scales,
        generate_masks \in BOOLEAN :
       \E gen \in common_generate_masks(channels, n, scale) :
         LET res == Masksembles1DDynamicSize_init(channels, n, scale,
                                                  generate_masks, gen)
         IN  /\ layer' = res.self
             /\ ctor' = Ctor("Masksembles1DDynamicSize", channels, n, scale,
                             generate_masks, FALSE, res)
             /\ call' = NoCall

Construct2DDynamicSize ==
  /\ ctor.status = "none"
  /\ \E channels \in ChannelArgs, n \in NArgs, scale \in Scales,
        generate_masks \in BOOLEAN :
       \E gen \in common_generate_masks(channels, n, scale) :
         LET res == Masksembles2DDynamicSize_init(channels, n, scale,
                                                  generate_masks, gen)
         IN  /\ layer' = res.self
             /\ ctor' = Ctor("Masksembles2DDynamicSize", channels, n, scale,
                             generate_masks, FALSE, res)
             /\ call' = NoCall

\* forward on the constructed layer, any number of times
Forward2D ==
  /\ layer.cls = "Masksembles2D"
  /\ \E inputs \in Inputs2D :
       \E res \in {Masksembles2D_forward(layer, inputs)} :
           /\ layer' = res.self
           /\ call' = Call(res.status, inputs, res.out)
           /\ UNCHANGED ctor

Forward1D ==
  /\ layer.cls = "Masksembles1D"
  /\ \E inputs \in Inputs1D :
       \E res \in {Masksembles1D_forward(layer, inputs)} :
           /\ layer' = res.self
           /\ call' = Call(res.status, inputs, res.out)
           /\ UNCHANGED ctor

Forward1DDynamicSize ==
  /\ layer.cls = "Masksembles1DDynamicSize"
  /\ \E inputs \in Inputs1D :
       \E res \in {Masksembles1DDynamicSize_forward(layer, inputs)} :
           /\ layer' = res.self
           /\ call' = Call(res.status, inputs, res.out)
           /\ UNCHANGED ctor

Forward2DDynamicSize ==
  /\ layer.cls = "Masksembles2DDynamicSize"
  /\ \E inputs \in Inputs2D :
       \E res \in {Masksembles2DDynamicSize_forward(layer, inputs)} :
           /\ layer' = res.self
           /\ call' = Call(res.status, inputs, res.out)
           /\ UNCHANGED ctor

Next ==
  \/ Construct2D
  \/ Construct1D
  \/ Construct1DDynamicSize
  \/ Construct2DDynamicSize
  \/ Forward2D
  \/ Forward1D
  \/ Forward1DDynamicSize
  \/ Forward2DDynamicSize

Spec == Init /\ [][Next]_vars

\* construction alone
NextCtor ==
  \/ Construct2D
  \/ Construct1D
  \/ Construct1DDynamicSize
  \/ Construct2DDynamicSize

CtorSpec == Init /\ [][NextCtor]_vars

(***************************************************************************)
(* Properties.                                                             *)
(***************************************************************************)
Constructing == ctor.status # "none"

ConstructedOk == ctor.status = "ok"

FixedSize == ctor.cls \in {"Masksembles1D", "Masksembles2D"}

DynamicSize == ctor.cls \in {"Masksembles1DDynamicSize", "Masksembles2DDynamicSize"}

ForwardCalled == call.status # "none"

ForwardOk == call.status = "ok"

\* the layer was constructed from positive n and channels and holds masks of
\* the shape [n, size] of its class
ContractLayer ==
  /\ ConstructedOk
  /\ layer.n >= 1
  /\ layer.channels >= 1
  /\ layer.masks.shape =
       <<layer.n, IF FixedSize THEN layer.channels ELSE layer.expected_size[1]>>

\* the call is valid: a non-empty batch on masks of shape [n, C], N divisible
\* by n
ValidCall ==
  /\ ForwardCalled
  /\ ContractLayer
  /\ call.inputs.shape[1] >= 1
  /\ layer.masks.shape = <<layer.n, call.inputs.shape[2]>>
  /\ call.inputs.shape[1] % layer.n = 0

\* out[r, c, p] = inputs[r, c, p] * masks[r div g][c] with g = N / n
GroupwiseMasked(inputs, masks, n, out) ==
  LET N == inputs.shape[1]
      C == inputs.shape[2]
      P == Prod(SubSeq(inputs.shape, 3, Len(inputs.shape)))
      g == N \div n
  IN  /\ out.shape = inputs.shape
      /\ \A e \in 1..(N * C * P) :
           LET r == (e - 1) \div (C * P)
               c == ((e - 1) \div P) % C
           IN  out.data[e] = inputs.data[e] * masks.data[(r \div g) * C + c + 1]

\* C1: every valid forward call returns a tensor of the input's shape whose
\* batch row r is the input row r multiplied, channel by channel, by mask
\* r div (N / n), at every spatial position.
C1_GroupwiseMask ==
  ValidCall => /\ ForwardOk
               /\ GroupwiseMasked(call.inputs, layer.masks, layer.n, call.out)

\* What the code does guarantee: C1 on float32 inputs.
GroupwiseMaskFloat32 ==
  (ValidCall /\ call.inputs.dtype = "float32") =>
    /\ ForwardOk
    /\ GroupwiseMasked(call.inputs, layer.masks, layer.n, call.out)

\* C2: every valid forward call returns a tensor of the input's numeric type.
C2_OutputDtype ==
  ValidCall => /\ ForwardOk
               /\ call.out.dtype = call.inputs.dtype

\* C3: a forward call whose input's channel dimension differs from the mask
\* width raises and returns no tensor, so no call returns a tensor of another
\* shape than its input's.
C3_ChannelMismatchRaises ==
  (ForwardCalled /\ ContractLayer /\ call.inputs.shape[1] >= 1) =>
    /\ call.inputs.shape[2] # layer.masks.shape[2] => ~ForwardOk
    /\ ForwardOk => call.out.shape = call.inputs.shape

\* C4: a forward call on a layer of n masks with a batch size that n does
\* not divide raises (torch's RuntimeError for the shapes) and returns no tensor.
C4_IndivisibleBatchRaises ==
  (ForwardCalled /\ layer.n >= 1 /\ call.inputs.shape[1] % layer.n # 0) =>
    /\ call.status = "RuntimeError"
    /\ call.out.dtype = "none"

\* the case N = 3, n = 2: N // n = 1 divides N, and N / (N // n) # n
C4_Witness ==
  /\ ForwardCalled
  /\ layer.n = 2
  /\ call.inputs.shape[1] = 3
  /\ layer.masks.shape[2] = call.inputs.shape[2]
  /\ call.status = "RuntimeError"

\* the other two cases: 0 < N < n, and N // n not dividing N
C4_WitnessSmall ==
  ForwardCalled /\ layer.n = 2 /\ call.inputs.shape[1] = 1 /\ ~ForwardOk

C4_WitnessRagged ==
  ForwardCalled /\ layer.n = 2 /\ call.inputs.shape[1] = 5 /\ ~ForwardOk

\* C10: once a layer is constructed, forward calls (failing ones too) leave
\* the layer, its masks, n, channels and scale, as they are.
C10_ForwardKeepsLayer == [][Constructing => layer' = layer]_vars

C10_Witness ==
  /\ call.status = "RuntimeError"
  /\ layer.masks.shape = <<2, 2>>
  /\ \E e \in 1..4 : layer.masks.data[e] = 1

\* mask i of a matrix as a sequence of its entries (i 0-based)
MaskRow(m, i) == [c \in 1..m.shape[2] |-> m.data[i * m.shape[2] + c]]

AllEntries(m, v) == \A e \in 1..(m.shape[1] * m.shape[2]) : m.data[e] = v

\* the mask width of the layer's class: channels, or expected_size
DeclaredSize == IF FixedSize THEN layer.channels ELSE layer.expected_size[1]

\* C5: after Masksembles1D or Masksembles2D is constructed with generated,
\* nested masks, every channel that is 1 in mask i - 1 is 1 in mask i, and
\* mask 0 is the generator's mask 0.
C5_NestedSuperset ==
  (ConstructedOk /\ FixedSize /\ ctor.generate_masks /\ ctor.nested_masks) =>
    /\ \A i \in 1..(layer.n - 1) : \A c \in 1..layer.masks.shape[2] :
         MaskRow(layer.masks, i - 1)[c] = 1 => MaskRow(layer.masks, i)[c] = 1
    /\ (ctor.gen_calls = 1 /\ layer.n >= 1) =>
         MaskRow(layer.masks, 0) = MaskRow(ctor.raw, 0)

\* the generator's mask 1 lacks a channel of its mask 0, so nesting adds it
C5_Witness ==
  /\ ConstructedOk /\ FixedSize /\ ctor.generate_masks /\ ctor.nested_masks
  /\ layer.n = 2
  /\ ctor.gen_calls = 1
  /\ \E c \in 1..ctor.raw.shape[2] :
       MaskRow(ctor.raw, 0)[c] = 1 /\ MaskRow(ctor.raw, 1)[c] = 0

\* C6: Masksembles1D with generated masks: with scale == 1 the masks are the
\* all-ones [n, channels] matrix, nested or not, and the generator is not
\* called; with any other scale the generator is called exactly once.
C6_Scale1Bypass ==
  (Constructing /\ ctor.cls = "Masksembles1D" /\ ctor.generate_masks) =>
    IF ctor.scale = 1
    THEN /\ ctor.gen_calls = 0
         /\ ConstructedOk =>
              /\ layer.masks.shape = <<ctor.n, ctor.channels>>
              /\ AllEntries(layer.masks, 1)
    ELSE ctor.gen_calls = 1

C6_Witness ==
  /\ ConstructedOk /\ ctor.cls = "Masksembles1D" /\ ctor.generate_masks
  /\ ctor.scale = 1 /\ ctor.nested_masks
  /\ layer.masks.shape = <<2, 2>>

\* with another scale the generator runs
C6_WitnessGenerated ==
  /\ ConstructedOk /\ ctor.cls = "Masksembles1D" /\ ctor.generate_masks
  /\ ctor.scale = 2 /\ ctor.gen_calls = 1

\* C7: a layer constructed with generate_masks = false holds the all-zeros
\* matrix of shape [n, size], the generator was not called, and this is so
\* whatever nested_masks is.
C7_NoGenerateZeros ==
  (ConstructedOk /\ ~ctor.generate_masks) =>
    /\ layer.masks.shape = <<ctor.n, DeclaredSize>>
    /\ FixedSize => DeclaredSize = ctor.channels
    /\ AllEntries(layer.masks, 0)
    /\ ctor.gen_calls = 0

C7_Witness ==
  /\ ConstructedOk /\ ~ctor.generate_masks /\ ctor.nested_masks
  /\ layer.masks.shape = <<2, 2>>

\* the dynamic size: expected_size = int(2 * 2 * (1 - (1/2) ** 2)) = 3
C7_WitnessDynamic ==
  /\ ConstructedOk /\ ~ctor.generate_masks /\ DynamicSize
  /\ ctor.n = 2 /\ ctor.channels = 2 /\ ctor.scale = 2
  /\ layer.masks.shape = <<2, 3>>

\* C8: a construction with n <= 0 or channels <= 0 raises and leaves no layer.
C8_NonPositiveArgsRaise ==
  (Constructing /\ (ctor.n <= 0 \/ ctor.channels <= 0)) =>
    /\ ~ConstructedOk
    /\ layer.cls = "none"

\* the width the generator's matrix has to have for the constructor's
\* arguments: channels, or expected_size
ContractSize ==
  IF FixedSize THEN ctor.channels
  ELSE expected_size(ctor.channels, ctor.n, ctor.scale).value

\* C9: when the generator returns a matrix of another shape than [n, size],
\* the construction raises; so a constructed dynamic layer has masks of width
\* expected_size.
C9_GeneratorShapeChecked ==
  /\ (Constructing /\ ctor.gen_calls = 1 /\ ~GenRaises(ctor.raw)
        /\ ctor.n >= 1 /\ ctor.channels >= 1 /\ ctor.raw.shape[2] >= 1
        /\ ctor.raw.shape # <<ctor.n, ContractSize>>) => ~ConstructedOk
  /\ (ConstructedOk /\ DynamicSize /\ ctor.n >= 1 /\ ctor.channels >= 1) =>
        layer.masks.shape[2] = layer.expected_size[1]

====
